---- MODULE Spec2Model ----
(***************************************************************************)
(* Account lifecycle service of the ORiem Capital backend                  *)
(* (app/services/account_service.py, app/routers/account_router.py,        *)
(* app/schemas/account_schema.py, app/models/account_model.py,             *)
(* app/database.py, app/main.py).                                          *)
(*                                                                         *)
(* The state is the committed content of the "accounts" table and the      *)
(* record of the last call made to the service.  One action models one     *)
(* whole call: the query, the mutations made on the session's entity, the  *)
(* commit (or the raise that skips it), and the close of the request's     *)
(* session.  Amounts are Decimal values of scale 2, written in cents.      *)
(***************************************************************************)
EXTENDS Integers, Sequences, FiniteSets, TLC

\* ---------------------------------------------------------------- bounds
MaxAccounts == 2

\* ------------------------------------------------------------- constants
None == "None"

Users == {1, 2}

MINIMUM_DEPOSITS == [checking |-> 2500, savings |-> 10000]

AccountType == {"checking", "savings"}

AccountStatus == {"active", "frozen", "closed"}

\* Inputs the callers draw from.
TypeInputs == {"checking", "savings", "SAVINGS", "loan"}

DepositInputs == {2499, 2500, 10000}

PostDepositInputs == DepositInputs \cup {0}

NicknameInputs == {None, "Main"}

UpdateNicknameInputs == {None, ""}

StatusInputs == {None, "active", "frozen", "closed", "suspended"}

AccountIds == 1..MaxAccounts

\* --------------------------------------------------------------- helpers
\* str.lower() on the account types the callers send.
lower(s) ==
  CASE s = "SAVINGS" -> "savings"
    [] s = "CHECKING" -> "checking"
    [] OTHER -> s

NoExc == [type |-> "None", status |-> 0, detail |-> ""]

ValueError(msg) == [type |-> "ValueError", status |-> 0, detail |-> msg]

HTTPException(code, msg) == [type |-> "HTTPException", status |-> code, detail |-> msg]

RequestValidationError == [type |-> "RequestValidationError", status |-> 422, detail |-> "validation"]

\* The row of the accounts table (models/account_model.py).
Account(id, user_id, account_type, balance, nickname, status) ==
  [id |-> id, user_id |-> user_id, account_type |-> account_type,
   balance |-> balance, nickname |-> nickname, status |-> status]

\* Query.first(): the first row of the result as a sequence of one row, or the
\* empty sequence (Python's None).
first(result) == IF result = <<>> THEN <<>> ELSE <<Head(result)>>

\* A plausible slip: the owner is left out of the filter.
query_by_id_only(rows, user_id, account_id) ==
  first(SelectSeq(rows, LAMBDA a : a.id = account_id))

\* db.query(Account).filter(Account.id == account_id,
\*                          Account.user_id == user_id).first()
query_by_id_and_user(rows, user_id, account_id) ==
  first(SelectSeq(rows, LAMBDA a : a.id = account_id /\ a.user_id = user_id))

\* db.commit(): the UPDATE of the session's dirty entity, by primary key.
commit(rows, entity) ==
  [i \in DOMAIN rows |-> IF rows[i].id = entity.id THEN entity ELSE rows[i]]

\* A plausible slip: the session flushes what it holds when it is closed.
close_flushing(rows, entity) == commit(rows, entity)

\* get_db's finally: db.close() without a commit discards what the session holds.
close(rows, entity) == rows

\* db.add(account); db.commit(); db.refresh(account): the table assigns the key.
\* The foreign key users.id rejects a user_id with no user row (IntegrityError).
insert(rows, entity) ==
  IF entity.user_id \in Users
    THEN [ok |-> TRUE, rows |-> Append(rows, [entity EXCEPT !.id = Len(rows) + 1])]
    ELSE [ok |-> FALSE, rows |-> rows]

\* ------------------------------------------------------------ service
Result(rows, exc, ret, session) ==
  [rows |-> rows, exc |-> exc, ret |-> ret, session |-> session]

\* A plausible slip: the comparison with the minimum is not strict.
create_account_above_minimum(rows, user_id, data) ==
  LET account_type == lower(data.account_type) IN
  IF account_type \notin DOMAIN MINIMUM_DEPOSITS
    THEN Result(rows, ValueError("Invalid account type."), <<>>, <<>>)
  ELSE IF data.initial_deposit <= MINIMUM_DEPOSITS[account_type]
    THEN Result(rows, ValueError("Minimum deposit."), <<>>, <<>>)
  ELSE
    LET account == Account(0, user_id, account_type, data.initial_deposit,
                           data.nickname, "active")
        ins == insert(rows, account)
    IN IF ins.ok
         THEN Result(ins.rows, NoExc, <<ins.rows[Len(ins.rows)]>>, <<>>)
         ELSE Result(rows, HTTPException(400, "Account could not be created."),
                     <<>>, <<>>)

create_account(rows, user_id, data) ==
  LET account_type == lower(data.account_type) IN
  IF account_type \notin DOMAIN MINIMUM_DEPOSITS
    THEN Result(rows, ValueError("Invalid account type."), <<>>, <<>>)
  ELSE IF data.initial_deposit < MINIMUM_DEPOSITS[account_type]
    THEN Result(rows, ValueError("Minimum deposit."), <<>>, <<>>)
  ELSE
    LET account == Account(0, user_id, account_type, data.initial_deposit,
                           data.nickname, "active")
        ins == insert(rows, account)
    IN IF ins.ok
         THEN Result(ins.rows, NoExc, <<ins.rows[Len(ins.rows)]>>, <<>>)
         ELSE Result(rows, HTTPException(400, "Account could not be created."),
                     <<>>, <<>>)

\* A plausible slip: the status is left out of the filter.
get_user_accounts_all(rows, user_id) ==
  Result(rows, NoExc, SelectSeq(rows, LAMBDA a : a.user_id = user_id), <<>>)

get_user_accounts(rows, user_id) ==
  Result(rows, NoExc,
         SelectSeq(rows, LAMBDA a : a.user_id = user_id /\ a.status # "closed"),
         <<>>)

get_account_by_id(rows, user_id, account_id) ==
  LET found == query_by_id_and_user(rows, user_id, account_id) IN
  IF found = <<>>
    THEN Result(rows, HTTPException(404, "Account not found."), <<>>, <<>>)
    ELSE Result(rows, NoExc, found, <<>>)

\* A plausible slip: the nickname is assigned whether or not it was supplied.
update_account_overwriting(rows, user_id, account_id, data) ==
  LET found == query_by_id_and_user(rows, user_id, account_id) IN
  IF found = <<>>
    THEN Result(rows, HTTPException(404, "Account not found."), <<>>, <<>>)
  ELSE
    LET a1 == [found[1] EXCEPT !.nickname = data.nickname]
    IN IF data.status # None /\ data.status \notin AccountStatus
         THEN Result(close(rows, a1), HTTPException(400, "Invalid status."),
                     <<>>, <<a1>>)
         ELSE
           LET a2 == IF data.status # None
                       THEN [a1 EXCEPT !.status = data.status]
                       ELSE a1
               saved == commit(rows, a2)
           IN Result(saved, NoExc, SelectSeq(saved, LAMBDA a : a.id = a2.id), <<a2>>)

\* A plausible slip: the assignment of delete_account is pasted for the status.
update_account_closing(rows, user_id, account_id, data) ==
  LET found == query_by_id_and_user(rows, user_id, account_id) IN
  IF found = <<>>
    THEN Result(rows, HTTPException(404, "Account not found."), <<>>, <<>>)
  ELSE
    LET a1 == IF data.nickname # None
                THEN [found[1] EXCEPT !.nickname = data.nickname]
                ELSE found[1]
    IN IF data.status # None /\ data.status \notin AccountStatus
         THEN Result(close(rows, a1), HTTPException(400, "Invalid status."),
                     <<>>, <<a1>>)
         ELSE
           LET a2 == IF data.status # None
                       THEN [a1 EXCEPT !.status = "closed"]
                       ELSE a1
               saved == commit(rows, a2)
           IN Result(saved, NoExc, SelectSeq(saved, LAMBDA a : a.id = a2.id), <<a2>>)

update_account(rows, user_id, account_id, data) ==
  LET found == query_by_id_and_user(rows, user_id, account_id) IN
  IF found = <<>>
    THEN Result(rows, HTTPException(404, "Account not found."), <<>>, <<>>)
  ELSE
    LET a1 == IF data.nickname # None
                THEN [found[1] EXCEPT !.nickname = data.nickname]
                ELSE found[1]
    IN IF data.status # None /\ data.status \notin AccountStatus
         THEN Result(close(rows, a1), HTTPException(400, "Invalid status."),
                     <<>>, <<a1>>)
         ELSE
           LET a2 == IF data.status # None
                       THEN [a1 EXCEPT !.status = data.status]
                       ELSE a1
               saved == commit(rows, a2)
           IN Result(saved, NoExc, SelectSeq(saved, LAMBDA a : a.id = a2.id), <<a2>>)

\* A plausible slip: the row is deleted instead of marked.
delete_account_hard(rows, user_id, account_id) ==
  LET found == query_by_id_and_user(rows, user_id, account_id) IN
  IF found = <<>>
    THEN Result(rows, HTTPException(404, "Account not found."), <<>>, <<>>)
    ELSE Result(SelectSeq(rows, LAMBDA a : a.id # account_id), NoExc, <<>>, <<>>)

\* A plausible slip: an account that is closed already is refused.
delete_account_once(rows, user_id, account_id) ==
  LET found == query_by_id_and_user(rows, user_id, account_id) IN
  IF found = <<>>
    THEN Result(rows, HTTPException(404, "Account not found."), <<>>, <<>>)
  ELSE IF found[1].status = "closed"
    THEN Result(rows, HTTPException(400, "Account already closed."), <<>>, found)
    ELSE LET a1 == [found[1] EXCEPT !.status = "closed"]
         IN Result(commit(rows, a1), NoExc, <<>>, <<a1>>)

\* A plausible slip: closing an account also empties it.
delete_account_zeroing(rows, user_id, account_id) ==
  LET found == query_by_id_and_user(rows, user_id, account_id) IN
  IF found = <<>>
    THEN Result(rows, HTTPException(404, "Account not found."), <<>>, <<>>)
    ELSE LET a1 == [found[1] EXCEPT !.status = "closed", !.balance = 0]
         IN Result(commit(rows, a1), NoExc, <<>>, <<a1>>)

delete_account(rows, user_id, account_id) ==
  LET found == query_by_id_and_user(rows, user_id, account_id) IN
  IF found = <<>>
    THEN Result(rows, HTTPException(404, "Account not found."), <<>>, <<>>)
    ELSE LET a1 == [found[1] EXCEPT !.status = "closed"]
         IN Result(commit(rows, a1), NoExc, <<>>, <<a1>>)

\* ------------------------------------------------------------ boundary
\* AccountCreate: account_type is an AccountType, initial_deposit has gt=0.
AccountCreateValid(data) ==
  data.account_type \in AccountType /\ data.initial_deposit > 0

\* What the application answers: the route's success code, an HTTPException's
\* own status, 422 for a body the schema rejects, and the global handler's
\* 500 for any other exception.
http_status(exc, success) ==
  CASE exc.type = "None" -> success
    [] exc.type = "HTTPException" -> exc.status
    [] exc.type = "RequestValidationError" -> 422
    [] OTHER -> 500

\* ------------------------------------------------------------ state
VARIABLES accounts, last

vars == <<accounts, last>>

NoData == [account_type |-> None, nickname |-> None, initial_deposit |-> 0, status |-> None]

Call(op, user_id, account_id, data, r, success, repeat) ==
  [op |-> op, user_id |-> user_id, account_id |-> account_id, data |-> data,
   exc |-> r.exc, http |-> http_status(r.exc, success), ret |-> r.ret,
   session |-> r.session, repeat |-> repeat]

Init ==
  /\ accounts = <<>>
  /\ last = Call("init", 0, 0, NoData, Result(<<>>, NoExc, <<>>, <<>>), 0, FALSE)

CreateData(t, n, d) == [NoData EXCEPT !.account_type = t, !.nickname = n, !.initial_deposit = d]

UpdateData(n, s) == [NoData EXCEPT !.nickname = n, !.status = s]

\* Every body a caller can send to create an account.
CreateInputs ==
  {CreateData(t, n, d) : t \in TypeInputs, n \in NicknameInputs, d \in DepositInputs}

PostInputs ==
  {CreateData(t, n, d) : t \in TypeInputs, n \in NicknameInputs, d \in PostDepositInputs}

\* The bodies used where the account's life after its creation is studied:
\* one that is accepted, one below the minimum, one of an unknown type.
OpenInputs ==
  {CreateData("checking", "Main", 2500), CreateData("checking", "Main", 2499),
   CreateData("loan", "Main", 2500)}

CreateAccount(inputs) ==
  \E u \in Users, data \in inputs :
    LET r == create_account(accounts, u, data)
    IN /\ Len(r.rows) <= MaxAccounts
       /\ accounts' = r.rows
       /\ last' = Call("create", u, 0, data, r, 201, FALSE)

PostAccounts ==
  \E u \in Users, data \in PostInputs :
    LET r == IF AccountCreateValid(data)
               THEN create_account(accounts, u, data)
               ELSE Result(accounts, RequestValidationError, <<>>, <<>>)
    IN /\ Len(r.rows) <= MaxAccounts
       /\ accounts' = r.rows
       /\ last' = Call("POST", u, 0, data, r, 201, FALSE)

ListAccounts ==
  \E u \in Users :
    LET r == get_user_accounts(accounts, u)
    IN /\ accounts' = r.rows
       /\ last' = Call("list", u, 0, NoData, r, 200, FALSE)

GetAccount ==
  \E u \in Users, id \in AccountIds :
    LET r == get_account_by_id(accounts, u, id)
    IN /\ accounts' = r.rows
       /\ last' = Call("get", u, id, NoData, r, 200, FALSE)

UpdateAccount ==
  \E u \in Users, id \in AccountIds, n \in UpdateNicknameInputs, s \in StatusInputs :
    LET data == UpdateData(n, s)
        r == update_account(accounts, u, id, data)
    IN /\ accounts' = r.rows
       /\ last' = Call("update", u, id, data, r, 200, FALSE)

CloseAccount ==
  \E u \in Users, id \in AccountIds :
    LET r == delete_account(accounts, u, id)
    IN /\ accounts' = r.rows
       /\ last' = Call("close", u, id, NoData, r, 204,
                       last.op = "close" /\ last.user_id = u /\ last.account_id = id)

\* The life of an account: opened, read, updated, closed.
Next ==
  \/ CreateAccount(OpenInputs)
  \/ ListAccounts
  \/ GetAccount
  \/ UpdateAccount
  \/ CloseAccount

Spec == Init /\ [][Next]_vars

\* The creation of accounts: every body, through the service and through
\* POST /api/v1/accounts, and the reads that show what was stored.
NextCreate ==
  \/ CreateAccount(CreateInputs)
  \/ PostAccounts
  \/ ListAccounts
  \/ GetAccount

SpecCreate == Init /\ [][NextCreate]_vars

\* ============================================================ properties
\* The error kinds of the service, by the exception that carries them.
InvalidArgument(exc) ==
  \/ exc.type = "ValueError"
  \/ exc.type = "HTTPException" /\ exc.status = 400 /\ exc.detail = "Invalid status."

NotFound(exc) == exc.type = "HTTPException" /\ exc.status = 404

\* The minimum the specification states for a type: 25.00 and 100.00.
ClaimedMinimum(t) == IF t = "checking" THEN 2500 ELSE 10000

\* The stored rows that carry an id.
stored(rows, id) == SelectSeq(rows, LAMBDA a : a.id = id)

ids(rows) == {rows[i].id : i \in DOMAIN rows}

\* --------------------------------------------------------------- C1
C1_CreateStep ==
  (last'.op = "create" /\ last'.data.account_type \in {"checking", "savings"}) =>
    LET d == last'.data.initial_deposit
        t == last'.data.account_type
    IN IF d < ClaimedMinimum(t)
         THEN InvalidArgument(last'.exc) /\ accounts' = accounts
         ELSE /\ last'.exc = NoExc
              /\ Len(accounts') = Len(accounts) + 1
              /\ SubSeq(accounts', 1, Len(accounts)) = accounts
              /\ LET new == accounts'[Len(accounts')]
                 IN /\ new.status = "active"
                    /\ new.balance = d
                    /\ new.user_id = last'.user_id
                    /\ new.account_type = t

\* C1: createAccount of a checking or savings account with a deposit below the
\* type's minimum (25.00, 100.00) fails with InvalidArgument and adds no row;
\* with a deposit equal to or above the minimum it succeeds and adds exactly
\* one row, active, with the deposit as balance and the caller as owner.
C1_MinimumDeposit == [][C1_CreateStep]_vars

\* A savings account opened with exactly 100.00 is stored, and the last call,
\* a checking account with 24.99, was refused.
C1_Witness ==
  /\ last.op = "create"
  /\ last.data.account_type = "checking"
  /\ last.data.initial_deposit = 2499
  /\ InvalidArgument(last.exc)
  /\ \E i \in DOMAIN accounts :
       /\ accounts[i].account_type = "savings"
       /\ accounts[i].balance = 10000
       /\ accounts[i].status = "active"

\* --------------------------------------------------------------- C2
AbsentId == MaxAccounts + 1

C2_Absent(op, user_id, data) ==
  CASE op = "get" -> get_account_by_id(accounts, user_id, AbsentId)
    [] op = "update" -> update_account(accounts, user_id, AbsentId, data)
    [] OTHER -> delete_account(accounts, user_id, AbsentId)

C2_CrossOwnerStep ==
  (/\ last'.op \in {"get", "update", "close"}
   /\ \E i \in DOMAIN accounts :
        accounts[i].id = last'.account_id /\ accounts[i].user_id # last'.user_id) =>
    /\ NotFound(last'.exc)
    /\ last'.ret = <<>>
    /\ last'.session = <<>>
    /\ accounts' = accounts
    /\ LET r == C2_Absent(last'.op, last'.user_id, last'.data)
       IN /\ last'.exc = r.exc
          /\ last'.ret = r.ret
          /\ last'.http = http_status(r.exc, 200)

\* C2: getAccount, updateAccount and closeAccount called with the id of an
\* account of another owner return NotFound, none of the account's data, and
\* leave the store unchanged, exactly as for an id that is not stored.
C2_CrossOwnerNotFound == [][C2_CrossOwnerStep]_vars

\* An update with a nickname and a status on the other owner's account was
\* answered NotFound.
C2_Witness ==
  /\ last.op = "update"
  /\ last.data.nickname # None
  /\ last.data.status = "closed"
  /\ NotFound(last.exc)
  /\ \E i \in DOMAIN accounts :
       /\ accounts[i].id = last.account_id
       /\ accounts[i].user_id # last.user_id
       /\ accounts[i].status = "active"

\* --------------------------------------------------------------- C3
C3_Closed(c) == c.op = "close" /\ c.exc = NoExc

C3_SoftDeleteStep ==
  /\ ids(accounts) \subseteq ids(accounts')
  /\ Len(accounts') >= Len(accounts)
  /\ C3_Closed(last') =>
       /\ stored(accounts', last'.account_id) # <<>>
       /\ \A i \in DOMAIN accounts' :
            accounts'[i].id = last'.account_id => accounts'[i].status = "closed"
  /\ (C3_Closed(last) /\ last'.op = "list" /\ last'.user_id = last.user_id) =>
       \A k \in DOMAIN last'.ret : last'.ret[k].id # last.account_id
  /\ (/\ C3_Closed(last) /\ last'.op = "get"
      /\ last'.user_id = last.user_id /\ last'.account_id = last.account_id) =>
       /\ last'.exc = NoExc
       /\ Len(last'.ret) = 1
       /\ last'.ret[1].id = last.account_id
       /\ last'.ret[1].status = "closed"

\* C3: no call removes a row (the set of stored ids never shrinks); after a
\* successful closeAccount(owner, id) the row is stored with status closed,
\* listAccounts(owner) does not contain id, and getAccount(owner, id) succeeds
\* and returns the record with status closed.
C3_SoftDelete == [][C3_SoftDeleteStep]_vars

\* The owner's account was closed: it is stored, closed, beside another
\* account of the same owner that is still listed.
C3_Witness ==
  /\ C3_Closed(last)
  /\ \E i, j \in DOMAIN accounts :
       /\ accounts[i].id = last.account_id
       /\ accounts[i].status = "closed"
       /\ accounts[j].user_id = last.user_id
       /\ accounts[j].status = "active"
       /\ Len(get_user_accounts(accounts, last.user_id).ret) = 1

\* --------------------------------------------------------------- C4
C4_IdempotentStep ==
  /\ C3_Closed(last') =>
       \A i \in DOMAIN accounts' :
         accounts'[i].id = last'.account_id => accounts'[i].status = "closed"
  /\ (C3_Closed(last) /\ last'.op = "close" /\ last'.repeat) =>
       /\ last'.exc = NoExc
       /\ accounts' = accounts

\* C4: closeAccount called twice in a row by the owner yields status closed
\* after each call, raises nothing the second time, and the second call
\* leaves the store as the first left it.
C4_CloseIdempotent == [][C4_IdempotentStep]_vars

\* The second of two consecutive closeAccount calls on the caller's account
\* has returned.
C4_Witness ==
  /\ C3_Closed(last)
  /\ last.repeat
  /\ \E i \in DOMAIN accounts :
       /\ accounts[i].id = last.account_id
       /\ accounts[i].user_id = last.user_id
       /\ accounts[i].status = "closed"

\* --------------------------------------------------------------- C5
C5_RejectedStep ==
  (last'.op \in {"create", "update"} /\ InvalidArgument(last'.exc)) =>
    accounts' = accounts

\* C5: whenever createAccount or updateAccount fails with InvalidArgument the
\* persisted store is the store before the call; in particular an update with
\* a nickname and an invalid status leaves the stored nickname and status
\* unchanged, although the nickname was assigned before the status was checked.
C5_NoPartialState == [][C5_RejectedStep]_vars

\* An update with a new nickname and an invalid status was refused: the
\* session's entity carries the new nickname, the stored row does not.
C5_Witness ==
  /\ last.op = "update"
  /\ InvalidArgument(last.exc)
  /\ last.data.nickname = ""
  /\ last.data.status = "suspended"
  /\ last.session # <<>>
  /\ last.session[1].nickname = ""
  /\ \E i \in DOMAIN accounts :
       /\ accounts[i].id = last.account_id
       /\ accounts[i].nickname = "Main"
       /\ accounts[i].status = "frozen"

\* --------------------------------------------------------------- C6
C6_UpdateStep ==
  last'.op = "update" =>
    LET id == last'.account_id
        data == last'.data
        old == stored(accounts, id)
        new == stored(accounts', id)
    IN /\ Len(accounts') = Len(accounts)
       /\ \A i \in DOMAIN accounts : accounts[i].id # id => accounts'[i] = accounts[i]
       /\ last'.exc = NoExc =>
            /\ Len(old) = 1 /\ Len(new) = 1
            /\ new[1].balance = old[1].balance
            /\ data.status = None => new[1].status = old[1].status
            /\ data.nickname = None => new[1].nickname = old[1].nickname
       /\ (/\ data.nickname = None /\ data.status = None
           /\ old # <<>> /\ old[1].user_id = last'.user_id) =>
            /\ last'.exc = NoExc
            /\ accounts' = accounts
            /\ last'.ret = old

\* C6: updateAccount changes only the supplied fields: with the nickname
\* alone the status and the balance are unchanged, with a valid status alone
\* the nickname and the balance are unchanged, with neither the call succeeds,
\* stores nothing new and returns the unchanged entity; every other account of
\* the store is unchanged.
C6_UpdateFrame == [][C6_UpdateStep]_vars

\* A status alone was supplied for an account that had been renamed, beside
\* another stored account: the nickname stayed.
C6_Witness ==
  /\ last.op = "update"
  /\ last.exc = NoExc
  /\ last.data.nickname = None
  /\ last.data.status = "frozen"
  /\ Len(accounts) = 2
  /\ \E i \in DOMAIN accounts :
       /\ accounts[i].id = last.account_id
       /\ accounts[i].nickname = ""
       /\ accounts[i].status = "frozen"
       /\ accounts[i].balance = 2500

\* --------------------------------------------------------------- C7
\* C7: listAccounts(u) returns exactly the stored accounts whose owner is u
\* and whose status is not closed, each once, and raises nothing; it is the
\* empty sequence when u has no such account.
C7_ListExact ==
  last.op = "list" =>
    /\ last.exc = NoExc
    /\ \A k \in DOMAIN last.ret :
         /\ last.ret[k].user_id = last.user_id
         /\ last.ret[k].status # "closed"
         /\ \E i \in DOMAIN accounts : accounts[i] = last.ret[k]
    /\ \A i \in DOMAIN accounts :
         (accounts[i].user_id = last.user_id /\ accounts[i].status # "closed") =>
           \E k \in DOMAIN last.ret : last.ret[k] = accounts[i]
    /\ \A k, m \in DOMAIN last.ret : last.ret[k].id = last.ret[m].id => k = m

\* The caller's only account is closed and the other account is another
\* owner's: the list is empty.
C7_Witness ==
  /\ last.op = "list"
  /\ last.ret = <<>>
  /\ last.exc = NoExc
  /\ \E i, j \in DOMAIN accounts :
       /\ accounts[i].user_id = last.user_id
       /\ accounts[i].status = "closed"
       /\ accounts[j].user_id # last.user_id
       /\ accounts[j].status = "active"

\* --------------------------------------------------------------- C8
C8_FailsValidation(data) ==
  \/ data.account_type \notin {"checking", "savings"}
  \/ data.initial_deposit <= 0
  \/ data.initial_deposit < ClaimedMinimum(data.account_type)

\* C8: a POST /accounts request whose account type or initial deposit fails
\* validation is answered with status 400, not with a 500.
C8_PostRejectedWith400 ==
  (last.op = "POST" /\ C8_FailsValidation(last.data)) => last.http = 400

\* --------------------------------------------------------------- C9
C9_ImmutableStep ==
  \A i \in DOMAIN accounts :
    /\ i \in DOMAIN accounts'
    /\ accounts'[i].id = accounts[i].id
    /\ accounts'[i].user_id = accounts[i].user_id
    /\ accounts'[i].account_type = accounts[i].account_type
    /\ accounts'[i].balance = accounts[i].balance

\* C9: across every call every stored account keeps its id, owner_id,
\* account_type and balance; only nickname and status change.
C9_ImmutableFields == [][C9_ImmutableStep]_vars

\* An account was renamed and then closed: nickname and status differ from
\* those of its creation, the other fields do not.
C9_Witness ==
  /\ C3_Closed(last)
  /\ \E i \in DOMAIN accounts :
       /\ accounts[i].id = last.account_id
       /\ accounts[i].nickname = ""
       /\ accounts[i].status = "closed"
       /\ accounts[i].balance = 2500
       /\ accounts[i].account_type = "checking"
       /\ accounts[i].user_id = last.user_id

\* --------------------------------------------------------------- C10
C10_Closes ==
  \E i \in DOMAIN accounts :
    /\ i \in DOMAIN accounts'
    /\ accounts[i].status \in {"active", "frozen"}
    /\ accounts'[i].status = "closed"

\* C10: in every step in which a stored account's status changes from active
\* or frozen to closed, the operation performed is closeAccount.
C10_OnlyCloseAccountCloses == [][C10_Closes => last'.op = "close"]_vars

\* C10 as amended: in every such step the operation is closeAccount, or
\* updateAccount called with status = closed.
C10_CloseOrUpdateToClosed ==
  [][C10_Closes =>
       \/ last'.op = "close"
       \/ last'.op = "update" /\ last'.data.status = "closed"]_vars

\* updateAccount with status = closed has closed an active account.
C10_Witness ==
  /\ last.op = "update"
  /\ last.exc = NoExc
  /\ last.data.status = "closed"
  /\ last.ret # <<>>
  /\ last.ret[1].status = "closed"

====
